---- MODULE Spec2Model ----
(***************************************************************************)
(* RTVIVoiceService (src/src/lib/services/rtvi.ts): the WebRTC voice       *)
(* session client.  The instance's fields, the browser objects it creates  *)
(* (peer connections, media streams, data channels, audio elements), the   *)
(* suspended connect() call and every event handler are modelled; each     *)
(* handler runs to completion (one JavaScript task) as one action.         *)
(***************************************************************************)
EXTENDS Naturals, Sequences, FiniteSets, TLC

\* ------------------------------------------------------------------ bounds
MaxConnects == 2      \* connect() calls made on the instance
MaxChannels == 2      \* data channels the server opens
MaxSinks == 2         \* remote audio tracks that arrive
MaxFragments == 2     \* text fragments received between two resets
MaxOverlaps == 2      \* disconnect() calls made while one connect() is suspended
MaxTimers == 3        \* interval timers the job detail component creates
MaxResumes == 2       \* handleResume() calls in flight at once
MaxPolls == 2         \* status requests in flight at once

ConnectIds == 1..MaxConnects
ChannelIds == 1..MaxChannels
SinkIds == 1..MaxSinks

\* A null reference (pc, dc, localStream, remoteAudio, sessionId).
Null == 0

\* ------------------------------------------------------- the wire protocol
\* data.text / data.error when the field is absent from the frame.
Undefined == "<undefined>"

\* The text fragments a frame may carry ("" is a text that is not undefined).
Fragments == {"", "Hel", "lo"}

\* data.final: "true", "false" or absent.
Finals == {"true", "false", Undefined}

\* The message types of the dispatch switch.
RTVIMessageType ==
    {"user-transcription", "bot-llm-text", "bot-llm-started", "bot-llm-stopped",
     "bot-tts-text", "bot-tts-started", "bot-tts-stopped", "user-started-speaking",
     "user-stopped-speaking", "bot-started-speaking", "bot-stopped-speaking", "error"}

\* A parsed frame; kind "malformed" is a payload JSON.parse rejects.
Frame(type, text, final, error) ==
    [kind |-> "json", type |-> type, text |-> text, final |-> final, error |-> error]

NoFrame == [kind |-> "none", type |-> "", text |-> Undefined, final |-> Undefined, error |-> Undefined]

Malformed == [kind |-> "malformed", type |-> "", text |-> Undefined, final |-> Undefined, error |-> Undefined]

TextTypes == {"bot-llm-text", "bot-tts-text"}

\* The frames the server may send on a data channel.
Frames ==
    {Frame(t, x, Undefined, Undefined) : t \in TextTypes, x \in Fragments \cup {Undefined}}
    \cup {Frame("user-transcription", x, f, Undefined) : x \in {"hi", Undefined}, f \in Finals}
    \cup {Frame("error", Undefined, Undefined, e) : e \in {"boom", "", Undefined}}
    \cup {Frame(t, Undefined, Undefined, Undefined) :
            t \in (RTVIMessageType \ (TextTypes \cup {"user-transcription", "error"}))
                  \cup {"server-message"}}
    \cup {Malformed}

\* ------------------------------------------------ browser connection states
IceStates == {"new", "checking", "connected", "completed", "disconnected", "failed", "closed"}
ConnStates == {"new", "connecting", "connected", "disconnected", "failed", "closed"}

\* The values both handlers treat as loss of the connection.
Terminal == {"disconnected", "failed", "closed"}

\* RTCPeerConnection.iceConnectionState: the values the ICE agent can move to.
IceNext(s) ==
    CASE s = "new" -> {"checking"}
      [] s = "checking" -> {"connected", "failed"}
      [] s = "connected" -> {"completed", "disconnected"}
      [] s = "completed" -> {"disconnected"}
      [] s = "disconnected" -> {"connected", "failed"}
      [] OTHER -> {}

\* RTCPeerConnection.connectionState: the values the transport can move to.
\* The browser derives it from the ICE and DTLS transports, so it is reported
\* connected only over connected ICE and disconnected only over disconnected
\* ICE; it fails when ICE fails or when DTLS fails over connected ICE.
ConnNext(s, ice) ==
    LET up == ice \in {"connected", "completed"}
        moves == CASE s = "new" -> {"connecting"}
                   [] s = "connecting" -> {"connected", "failed"}
                   [] s = "connected" -> {"disconnected", "failed"}
                   [] s = "disconnected" -> {"connected", "failed"}
                   [] OTHER -> {}
    IN {t \in moves :
            /\ t = "connecting" => ice # "new"
            /\ t = "connected" => up
            /\ t = "disconnected" => ice = "disconnected"
            /\ t = "failed" => (up \/ ice = "failed")}

\* HTTP statuses of the signaling responses; Response.ok is 200..299.
Statuses == {200, 404, 500}
Ok(status) == status >= 200 /\ status <= 299

VARIABLES
    \* fields of RTVIVoiceService
    pc, dc, localStream, remoteAudio, sessionId, callbacks, _connected,
    accumulatedBotText,
    \* browser objects
    pcs, streams, chans, sinks,
    \* the connect() call
    nConnects, at, result, error, steps,
    \* the handler that ran last and the caller callbacks it invoked
    last,
    \* history: the text received since the most recent reset
    utterance,
    \* the job detail component (src/unnamed/part_002): its variables, the
    \* browser's interval timers and its asynchronous calls in flight
    job, loading, loadError, statusPollInterval, timers, mounted, loadingJob,
    resuming, polling, stopped

fields == <<pc, dc, localStream, remoteAudio, sessionId, callbacks, _connected, accumulatedBotText>>
world == <<pcs, streams, chans, sinks>>
call == <<nConnects, at, result, error, steps>>
service == <<fields, world, call, last, utterance>>
jobDetail == <<job, loading, loadError, statusPollInterval, timers, mounted, loadingJob,
               resuming, polling, stopped>>
vars == <<service, jobDetail>>

\* ---------------------------------------------------------- initial state
NoPeer ==
    [life |-> "none", iceConnectionState |-> "new", connectionState |-> "new",
     remote |-> FALSE, tracks |-> {}, lost |-> FALSE]

\* A MediaStream with its one audio track: not acquired, live or stopped.
\* `everMuted` records that setMicMuted(true) has reached the track.
NoStream == [life |-> "none", enabled |-> TRUE, everMuted |-> FALSE]

NoChannel == [pc |-> Null, readyState |-> "none", opened |-> FALSE, sent |-> <<>>]

\* What a handler leaves in `last`: its name, the frame or state it was given
\* and the caller callbacks it invoked, in order.
\* `raised` tells that the handler ended by an exception it did not catch
\* (for disconnect(), that the promise it returned rejected).
Ran(op, frame, state, calls) ==
    [op |-> op, frame |-> frame, state |-> state, calls |-> calls, raised |-> FALSE]

\* The handler ran as `ran` and ended by an uncaught exception iff `threw`.
Ended(ran, threw) == [ran EXCEPT !.raised = threw]

\* The callbacks object given to connect(): whether the caller supplied the
\* hooks, and which of them throw when they are called.
Hooks(throwing) == [given |-> TRUE, throwing |-> throwing]

\* private callbacks: RTVICallbacks = {}
NoCallbacks == [given |-> FALSE, throwing |-> {}]

\* Callbacks that all return normally.
Returning == Hooks({})

\* The callbacks objects a caller may pass: all returning, or one hook that throws.
CallbackSets ==
    {Returning, Hooks({"onError"}), Hooks({"onConnectionStateChange"}), Hooks({"onBotTranscript"})}

\* ------------------------------------- job detail component: its data
TimerIds == 1..MaxTimers

\* A status string as the sequence of its characters.
RUNNING == <<"R", "U", "N", "N", "I", "N", "G">>
PAUSED == <<"P", "A", "U", "S", "E", "D">>
COMPLETED == <<"C", "O", "M", "P", "L", "E", "T", "E", "D">>
FAILED == <<"F", "A", "I", "L", "E", "D">>
CANCELLED == <<"C", "A", "N", "C", "E", "L", "L", "E", "D">>

UpperCaseLetters == <<"A", "C", "D", "E", "F", "G", "I", "L", "M", "N", "O", "P", "R", "S", "T", "U">>
LowerCaseLetters == <<"a", "c", "d", "e", "f", "g", "i", "l", "m", "n", "o", "p", "r", "s", "t", "u">>

\* The place of character ch in `letters`, 0 when it is not one of them.
IndexOf(letters, ch) ==
    IF \E i \in DOMAIN letters : letters[i] = ch
    THEN CHOOSE i \in DOMAIN letters : letters[i] = ch
    ELSE 0

\* String.prototype.toUpperCase / toLowerCase, character by character.
toUpperCase(str) ==
    [i \in DOMAIN str |->
        IF IndexOf(LowerCaseLetters, str[i]) # 0
        THEN UpperCaseLetters[IndexOf(LowerCaseLetters, str[i])] ELSE str[i]]

toLowerCase(str) ==
    [i \in DOMAIN str |->
        IF IndexOf(UpperCaseLetters, str[i]) # 0
        THEN LowerCaseLetters[IndexOf(UpperCaseLetters, str[i])] ELSE str[i]]

\* "Failed": the first letter in upper case only.
Capitalised(str) == <<Head(str)>> \o toLowerCase(Tail(str))

\* The statuses the jobs API may report, in the letter cases it may use.
JobStatuses ==
    {RUNNING, PAUSED, toLowerCase(PAUSED), COMPLETED, toLowerCase(COMPLETED),
     Capitalised(FAILED), toLowerCase(CANCELLED)}

\* let job: Job | null = null
NoJob == [loaded |-> FALSE, status |-> <<>>]
Job(status) == [loaded |-> TRUE, status |-> status]

\* The component as constructed: nothing loaded, no timer, onMount not yet run.
InitJobDetail ==
    /\ job = NoJob /\ loading = TRUE /\ loadError = FALSE
    /\ statusPollInterval = Null
    /\ timers = [t \in TimerIds |-> "none"]
    /\ mounted = "no" /\ loadingJob = "no"
    /\ resuming = [resumeJob |-> 0, loadJob |-> 0]
    /\ polling = 0 /\ stopped = FALSE

Init ==
    /\ InitJobDetail
    /\ pc = Null /\ dc = Null /\ localStream = Null /\ remoteAudio = Null
    /\ sessionId = Null /\ callbacks = NoCallbacks /\ _connected = FALSE
    /\ accumulatedBotText = ""
    /\ pcs = [k \in ConnectIds |-> NoPeer]
    /\ streams = [k \in ConnectIds |-> NoStream]
    /\ chans = [c \in ChannelIds |-> NoChannel]
    /\ sinks = [s \in SinkIds |-> "none"]
    /\ nConnects = 0 /\ at = "idle"
    /\ result = "none" /\ error = "" /\ steps = <<>>
    /\ last = Ran("new", NoFrame, "", <<>>)
    /\ utterance = [reset |-> "new", dropped |-> FALSE, frags |-> <<>>]

\* ------------------------------------------------------- caller callbacks
Call(cb, text, flag) == [cb |-> cb, text |-> text, flag |-> flag]

\* this.callbacks.<cb>?.(...): the call is made when the caller supplied hooks.
Invoke(cbs, c) == IF cbs.given THEN <<c>> ELSE <<>>

\* The call c is made and the caller's hook throws.
Throws(cbs, c) == cbs.given /\ c.cb \in cbs.throwing

\* What a throwing hook throws.
CallbackError == "Error thrown by a callback"

\* ------------------------------------------------- history of the utterance
\* The fragments heard since the latest connect(), disconnect() or
\* bot-llm-started frame, kept apart from the instance's own buffer.
Heard(u, event, frame) ==
    IF event \in {"connect", "disconnect"}
    THEN [reset |-> event, dropped |-> \E i \in 1..Len(u.frags) : u.frags[i] # "", frags |-> <<>>]
    ELSE IF event # "frame" \/ frame.kind # "json" THEN u
    ELSE IF frame.type = "bot-llm-started"
    THEN [reset |-> "bot-llm-started", dropped |-> \E i \in 1..Len(u.frags) : u.frags[i] # "",
          frags |-> <<>>]
    ELSE IF frame.type \in TextTypes /\ frame.text # Undefined
    THEN [u EXCEPT !.frags = Append(@, frame.text)]
    ELSE u

\* ------------------------------------------------------------ disconnect()
\* A disconnect that leaves the captured tracks running.
StopTracksSkipped(strs, ls) == strs

\* localStream.getTracks().forEach(track => track.stop())
StopTracks(strs, ls) == IF ls # Null THEN [strs EXCEPT ![ls].life = "stopped"] ELSE strs

\* remoteAudio.srcObject = null
DetachSink(snks, ra) == IF ra # Null THEN [snks EXCEPT ![ra] = "detached"] ELSE snks

\* dc.close()
CloseChannel(chs, d) == IF d # Null THEN [chs EXCEPT ![d].readyState = "closed"] ELSE chs

\* pc.close(): the connection and the data channels it carries are closed.
ClosePeer(ps, p) ==
    IF p # Null
    THEN [ps EXCEPT ![p].life = "closed", ![p].iceConnectionState = "closed",
                    ![p].connectionState = "closed"]
    ELSE ps

ClosePeerChannels(chs, p) ==
    [c \in ChannelIds |->
        IF p # Null /\ chs[c].pc = p /\ chs[c].readyState # "none"
        THEN [chs[c] EXCEPT !.readyState = "closed"] ELSE chs[c]]

\* A disconnect that releases everything but leaves the connected flag as it is.
disconnectBodyKeepsConnected(strs, ls) ==
    /\ streams' = StopTracks(strs, ls)
    /\ localStream' = Null
    /\ sinks' = DetachSink(sinks, remoteAudio)
    /\ remoteAudio' = Null
    /\ chans' = ClosePeerChannels(CloseChannel(chans, dc), pc)
    /\ dc' = Null
    /\ pcs' = ClosePeer(pcs, pc)
    /\ pc' = Null
    /\ _connected' = _connected
    /\ sessionId' = Null
    /\ accumulatedBotText' = ""
    /\ utterance' = Heard(utterance, "disconnect", NoFrame)

\* A disconnect whose release steps are chained with else-if: each call
\* releases only the first resource it finds.
disconnectElseIf(strs, ls) ==
    /\ IF ls # Null
       THEN /\ streams' = StopTracks(strs, ls) /\ localStream' = Null
            /\ UNCHANGED <<sinks, remoteAudio, chans, dc, pcs, pc>>
       ELSE IF remoteAudio # Null
       THEN /\ sinks' = DetachSink(sinks, remoteAudio) /\ remoteAudio' = Null
            /\ streams' = strs /\ localStream' = ls
            /\ UNCHANGED <<chans, dc, pcs, pc>>
       ELSE IF dc # Null
       THEN /\ chans' = CloseChannel(chans, dc) /\ dc' = Null
            /\ streams' = strs /\ localStream' = ls
            /\ UNCHANGED <<sinks, remoteAudio, pcs, pc>>
       ELSE /\ chans' = ClosePeerChannels(chans, pc) /\ pcs' = ClosePeer(pcs, pc) /\ pc' = Null
            /\ streams' = strs /\ localStream' = ls
            /\ UNCHANGED <<sinks, remoteAudio, dc>>
    /\ _connected' = FALSE
    /\ sessionId' = Null
    /\ accumulatedBotText' = ""
    /\ utterance' = Heard(utterance, "disconnect", NoFrame)

\* The body of disconnect(), run on streams `strs` with this.localStream = ls.
disconnectBody(strs, ls) ==
    /\ streams' = StopTracks(strs, ls)
    /\ localStream' = Null
    /\ sinks' = DetachSink(sinks, remoteAudio)
    /\ remoteAudio' = Null
    /\ chans' = ClosePeerChannels(CloseChannel(chans, dc), pc)
    /\ dc' = Null
    /\ pcs' = ClosePeer(pcs, pc)
    /\ pc' = Null
    /\ _connected' = FALSE
    /\ sessionId' = Null
    /\ accumulatedBotText' = ""
    /\ utterance' = Heard(utterance, "disconnect", NoFrame)

Disconnected == Call("onConnectionStateChange", "disconnected", FALSE)

\* The caller calls disconnect() (not while a connect() call is pending).
disconnect ==
    /\ at = "idle"
    /\ disconnectBody(streams, localStream)
    /\ last' = Ended(Ran("disconnect", NoFrame, "", Invoke(callbacks, Disconnected)),
                     Throws(callbacks, Disconnected))
    /\ UNCHANGED <<callbacks, call, jobDetail>>

\* The disconnect() calls made while the pending connect() was suspended.
Overlaps == Len(SelectSeq(steps, LAMBDA x : x = "disconnect"))

\* A disconnect() that is put off while a connect() is pending.
disconnectIgnoredWhileConnecting ==
    /\ at # "idle" /\ Overlaps < MaxOverlaps
    /\ last' = Ran("disconnect", NoFrame, "", <<>>)
    /\ steps' = Append(steps, "disconnect")
    /\ UNCHANGED <<fields, world, nConnects, at, result, error, utterance, jobDetail>>

\* The caller calls disconnect() while connect() is suspended at one of its
\* awaits: disconnect() has no await of its own and runs to its end; the
\* call is noted in `steps`, and connect() stays suspended where it was.
disconnectWhileConnecting ==
    /\ at # "idle" /\ Overlaps < MaxOverlaps
    /\ disconnectBody(streams, localStream)
    /\ last' = Ended(Ran("disconnect", NoFrame, "", Invoke(callbacks, Disconnected)),
                     Throws(callbacks, Disconnected))
    /\ steps' = Append(steps, "disconnect")
    /\ UNCHANGED <<callbacks, nConnects, at, result, error, jobDetail>>

\* --------------------------------------------------------------- connect()
\* The promise of an operation of this call's peer connection (createOffer,
\* setLocalDescription, setRemoteDescription) settles only while the
\* connection is open: the browser drops the result of an operation whose
\* connection was closed and leaves the promise pending.
PeerSettles == pcs[nConnects].life = "open"

\* A catch block that reports and rethrows without cleaning up.
ThrowWithoutCleanup(op, reason, err, strs, ls) ==
    /\ streams' = strs /\ localStream' = ls
    /\ last' = Ran(op, NoFrame, reason, Invoke(callbacks, Call("onError", err, FALSE)))
    /\ at' = "idle" /\ result' = "rejected" /\ error' = err
    /\ UNCHANGED <<pc, dc, remoteAudio, sessionId, callbacks, _connected, accumulatedBotText,
                   pcs, chans, sinks, nConnects, steps, utterance, jobDetail>>

\* A catch block that cleans up and then never settles the promise.
ThrowHangs(op, reason, err, strs, ls) ==
    /\ disconnectBody(strs, ls)
    /\ last' = Ran(op, NoFrame, reason,
                   Invoke(callbacks, Call("onError", err, FALSE)) \o Invoke(callbacks, Disconnected))
    /\ at' = "hung"
    /\ UNCHANGED <<callbacks, nConnects, result, error, steps, jobDetail>>

\* The catch block (lines 168-173) entered from step `op` with `err` thrown
\* for `reason`: onError(err), a full disconnect(), then the rethrow that
\* rejects connect() with the same error.  An exception thrown by onError
\* (line 170) leaves the block before disconnect() is called; one thrown by
\* the callback of disconnect() (line 384) rejects the awaited disconnect()
\* after it has released everything.  Either replaces the error rethrown.
Throw(op, reason, err, strs, ls) ==
    IF Throws(callbacks, Call("onError", err, FALSE))
    THEN /\ streams' = strs /\ localStream' = ls
         /\ last' = Ended(Ran(op, NoFrame, reason, <<Call("onError", err, FALSE)>>), TRUE)
         /\ at' = "idle" /\ result' = "rejected" /\ error' = CallbackError
         /\ UNCHANGED <<pc, dc, remoteAudio, sessionId, callbacks, _connected,
                        accumulatedBotText, pcs, chans, sinks, nConnects, steps, utterance, jobDetail>>
    ELSE /\ disconnectBody(strs, ls)
         /\ last' = Ended(Ran(op, NoFrame, reason,
                              Invoke(callbacks, Call("onError", err, FALSE))
                              \o Invoke(callbacks, Disconnected)),
                          Throws(callbacks, Disconnected))
         /\ at' = "idle" /\ result' = "rejected"
         /\ error' = IF Throws(callbacks, Disconnected) THEN CallbackError ELSE err
         /\ UNCHANGED <<callbacks, nConnects, steps, jobDetail>>

\* An awaited browser operation rejects with `reason`, which is the error thrown.
Reject(op, reason) == Throw(op, reason, reason, streams, localStream)

\* this.pc is dereferenced while it is null.
NullPc == "TypeError: this.pc is null"

\* Step `op` succeeds and connect() suspends at its next await, having
\* started the operations `performed`.
Await(op, outcome, next, performed) ==
    /\ at' = next
    /\ steps' = steps \o performed
    /\ last' = Ran(op, NoFrame, outcome, <<>>)
    /\ UNCHANGED <<fields, world, nConnects, result, error, utterance, jobDetail>>

\* What a fetch() may settle to: a rejection or a response with a status.
FetchOutcomes == {[rejected |-> TRUE, status |-> 0]} \cup {[rejected |-> FALSE, status |-> s] : s \in Statuses}

FetchFailed == "TypeError: Failed to fetch"

\* An error message that leaves the status out.
StartErrorWithoutStatus(status) == "Failed to create session"

\* new Error(`Failed to create session: ${startResponse.status}`)
StartError(status) == "Failed to create session: " \o ToString(status)

\* new Error(`Failed to send offer: ${offerResponse.status}`)
OfferError(status) == "Failed to send offer: " \o ToString(status)

\* The caller calls connect(config, callbacks): the fields are set and POST
\* /start is issued (one call at a time: the caller awaits the previous one).
connectWith(cbs) ==
    /\ at = "idle" /\ nConnects < MaxConnects
    /\ callbacks' = cbs
    /\ accumulatedBotText' = ""
    /\ nConnects' = nConnects + 1
    /\ at' = "start" /\ result' = "pending" /\ error' = "" /\ steps' = <<"start">>
    /\ last' = Ran("connect", NoFrame, "", <<>>)
    /\ utterance' = Heard(utterance, "connect", NoFrame)
    /\ UNCHANGED <<pc, dc, localStream, remoteAudio, sessionId, _connected, world, jobDetail>>

\* connect() with callbacks that return normally.
connect == connectWith(Returning)

\* await fetch(`${serverUrl}/start`) settles; a non-success status throws.
connect_start ==
    /\ at = "start"
    /\ \E o \in FetchOutcomes :
        IF o.rejected THEN Reject("connect_start", FetchFailed)
        ELSE IF ~Ok(o.status)
        THEN Throw("connect_start", ToString(o.status), StartError(o.status), streams, localStream)
        ELSE Await("connect_start", ToString(o.status), "startJson", <<>>)

\* The iceConfig of the /start response: absent, or present with its
\* iceServers list absent, empty or holding the server's TURN server.
NoList == [given |-> FALSE, urls |-> <<>>]
List(urls) == [given |-> TRUE, urls |-> urls]
ServerList == <<"turn:turn.example.org:3478">>
IceConfigs ==
    {[given |-> FALSE, iceServers |-> NoList]}
    \cup {[given |-> TRUE, iceServers |-> l] : l \in {NoList, List(<<>>), List(ServerList)}}

\* { urls: 'stun:stun.l.google.com:19302' }
DefaultIceServers == <<"stun:stun.l.google.com:19302">>

\* A connect() that ignores the server's list.
iceServersAlwaysDefault(iceConfig) == DefaultIceServers

\* Lines 107-109: iceConfig?.iceServers || [default]; a list, even an empty
\* one, is truthy.
iceServers(iceConfig) ==
    IF iceConfig.given /\ iceConfig.iceServers.given
    THEN iceConfig.iceServers.urls
    ELSE DefaultIceServers

\* What line 111 was given: the configuration received and the list the
\* connection is built with.
Built(iceConfig) ==
    [kind |-> "built", type |-> "", text |-> Undefined, final |-> Undefined,
     error |-> Undefined, iceConfig |-> iceConfig, iceServers |-> iceServers(iceConfig)]

\* new RTCPeerConnection({ iceServers }) with its handlers set.
NewPeer == [NoPeer EXCEPT !.life = "open"]

\* await startResponse.json() settles: the session id is stored, the peer
\* connection is built, and the microphone is requested unless
\* config.enableMic is false (the config is read here, at line 115).
connect_startJson ==
    /\ at = "startJson"
    /\ \E parsed \in BOOLEAN, enableMic \in BOOLEAN, iceConfig \in IceConfigs :
        IF ~parsed THEN Reject("connect_startJson", "SyntaxError")
        ELSE /\ sessionId' = nConnects
             /\ pc' = nConnects
             /\ pcs' = [pcs EXCEPT ![nConnects] = NewPeer]
             /\ IF enableMic
                THEN at' = "getUserMedia" /\ steps' = steps \o <<"pc", "getUserMedia">>
                ELSE at' = "createOffer" /\ steps' = steps \o <<"pc", "createOffer">>
             /\ last' = Ran("connect_startJson", Built(iceConfig), "ok", <<>>)
             /\ UNCHANGED <<dc, localStream, remoteAudio, callbacks, _connected,
                            accumulatedBotText, streams, chans, sinks,
                            nConnects, result, error, utterance, jobDetail>>

\* A connect() that goes on without a microphone when capture is refused.
connect_getUserMediaOptional ==
    /\ at = "getUserMedia"
    /\ \E granted \in BOOLEAN :
        IF ~granted
        THEN Await("connect_getUserMedia", "NotAllowedError", "createOffer", <<"createOffer">>)
        ELSE /\ streams' = [streams EXCEPT ![nConnects].life = "live"]
             /\ localStream' = nConnects
             /\ pcs' = [pcs EXCEPT ![pc].tracks = @ \cup {nConnects}]
             /\ at' = "createOffer" /\ steps' = steps \o <<"addTrack", "createOffer">>
             /\ last' = Ran("connect_getUserMedia", NoFrame, "ok", <<>>)
             /\ UNCHANGED <<pc, dc, remoteAudio, sessionId, callbacks, _connected,
                            accumulatedBotText, chans, sinks,
                            nConnects, result, error, utterance, jobDetail>>

\* await getUserMedia() settles: the stream is kept, its tracks are added to
\* the peer connection and the offer is asked for.
connect_getUserMedia ==
    /\ at = "getUserMedia"
    /\ \E granted \in BOOLEAN :
        IF ~granted THEN Reject("connect_getUserMedia", "NotAllowedError")
        ELSE LET strs == [streams EXCEPT ![nConnects].life = "live"] IN
             IF pc = Null
             THEN Throw("connect_getUserMedia", NullPc, NullPc, strs, nConnects)
             ELSE /\ streams' = strs
                  /\ localStream' = nConnects
                  /\ pcs' = [pcs EXCEPT ![pc].tracks = @ \cup {nConnects}]
                  /\ at' = "createOffer" /\ steps' = steps \o <<"addTrack", "createOffer">>
                  /\ last' = Ran("connect_getUserMedia", NoFrame, "ok", <<>>)
                  /\ UNCHANGED <<pc, dc, remoteAudio, sessionId, callbacks, _connected,
                                 accumulatedBotText, chans, sinks,
                                 nConnects, result, error, utterance, jobDetail>>

\* A connect() that posts the offer before setting it as local description.
connect_createOfferPostsFirst ==
    /\ at = "createOffer"
    /\ \E made \in BOOLEAN :
        IF ~made THEN Reject("connect_createOffer", "OperationError")
        ELSE IF pc = Null THEN Reject("connect_createOffer", NullPc)
        ELSE Await("connect_createOffer", "ok", "offer", <<"offer">>)

\* await pc.createOffer() settles; the offer becomes the local description.
connect_createOffer ==
    /\ at = "createOffer" /\ PeerSettles
    /\ \E made \in BOOLEAN :
        IF ~made THEN Reject("connect_createOffer", "OperationError")
        ELSE IF pc = Null THEN Reject("connect_createOffer", NullPc)
        ELSE Await("connect_createOffer", "ok", "setLocalDescription", <<"setLocalDescription">>)

\* await pc.setLocalDescription(offer) settles; the offer is then posted.
connect_setLocalDescription ==
    /\ at = "setLocalDescription" /\ PeerSettles
    /\ \E set \in BOOLEAN :
        IF ~set THEN Reject("connect_setLocalDescription", "InvalidStateError")
        ELSE Await("connect_setLocalDescription", "ok", "offer", <<"offer">>)

\* await fetch(`${serverUrl}/sessions/${sessionId}/api/offer`) settles.
connect_offer ==
    /\ at = "offer"
    /\ \E o \in FetchOutcomes :
        IF o.rejected THEN Reject("connect_offer", FetchFailed)
        ELSE IF ~Ok(o.status)
        THEN Throw("connect_offer", ToString(o.status), OfferError(o.status), streams, localStream)
        ELSE Await("connect_offer", ToString(o.status), "offerJson", <<>>)

\* A connect() that declares itself connected and resolves as soon as the
\* answer is parsed, without waiting for the remote description.
connect_offerJsonResolves ==
    /\ at = "offerJson"
    /\ \E parsed \in BOOLEAN :
        IF ~parsed THEN Reject("connect_offerJson", "SyntaxError")
        ELSE /\ _connected' = TRUE
             /\ last' = Ran("connect_offerJson", NoFrame, "ok",
                            Invoke(callbacks, Call("onConnectionStateChange", "connected", FALSE)))
             /\ at' = "idle" /\ result' = "resolved"
             /\ UNCHANGED <<pc, dc, localStream, remoteAudio, sessionId, callbacks,
                            accumulatedBotText, world, nConnects, error, steps, utterance, jobDetail>>

\* await offerResponse.json() settles; the answer is given to the connection.
connect_offerJson ==
    /\ at = "offerJson"
    /\ \E parsed \in BOOLEAN :
        IF ~parsed THEN Reject("connect_offerJson", "SyntaxError")
        ELSE IF pc = Null THEN Reject("connect_offerJson", NullPc)
        ELSE Await("connect_offerJson", "ok", "setRemoteDescription", <<"setRemoteDescription">>)

Connected == Call("onConnectionStateChange", "connected", FALSE)

\* Line 165 threw inside the try block, after line 164: the catch block runs
\* on the callback's error with the session already declared connected.
ConnectedThrew(op) ==
    LET onErr == Call("onError", CallbackError, FALSE) IN
    IF Throws(callbacks, onErr)
    THEN /\ pcs' = [pcs EXCEPT ![nConnects].remote = TRUE]
         /\ _connected' = TRUE
         /\ last' = Ended(Ran(op, NoFrame, "callback threw", <<Connected, onErr>>), TRUE)
         /\ at' = "idle" /\ result' = "rejected" /\ error' = CallbackError
         /\ UNCHANGED <<pc, dc, localStream, remoteAudio, sessionId, callbacks,
                        accumulatedBotText, streams, chans, sinks, nConnects, steps, utterance, jobDetail>>
    ELSE /\ disconnectBody(streams, localStream)
         /\ last' = Ended(Ran(op, NoFrame, "callback threw",
                              <<Connected>> \o Invoke(callbacks, onErr)
                              \o Invoke(callbacks, Disconnected)),
                          Throws(callbacks, Disconnected))
         /\ at' = "idle" /\ result' = "rejected" /\ error' = CallbackError
         /\ UNCHANGED <<callbacks, nConnects, steps, jobDetail>>

\* await pc.setRemoteDescription(answer) settles: the session is declared
\* connected (lines 164-165) and connect() resolves.
connect_setRemoteDescription ==
    /\ at = "setRemoteDescription" /\ PeerSettles
    /\ \E applied \in BOOLEAN :
        IF ~applied THEN Reject("connect_setRemoteDescription", "InvalidAccessError")
        ELSE IF Throws(callbacks, Connected) THEN ConnectedThrew("connect_setRemoteDescription")
        ELSE /\ pcs' = [pcs EXCEPT ![nConnects].remote = TRUE]
             /\ _connected' = TRUE
             /\ last' = Ran("connect_setRemoteDescription", NoFrame, "ok",
                            Invoke(callbacks, Connected))
             /\ at' = "idle" /\ result' = "resolved"
             /\ UNCHANGED <<pc, dc, localStream, remoteAudio, sessionId, callbacks,
                            accumulatedBotText, streams, chans, sinks,
                            nConnects, error, steps, utterance, jobDetail>>

\* ------------------------------------------------- peer connection events
\* A handler touches nothing of the connect() call.
Handled(ran) == last' = ran /\ UNCHANGED <<call, jobDetail>>

\* The connection can raise events: it was built and has not been closed.
Alive(p) == pcs[p].life = "open"

\* The remote description is applied: the transport runs and the server's
\* tracks and data channels arrive.
Negotiated(p) == Alive(p) /\ pcs[p].remote

FreeSinks == {s \in SinkIds : sinks[s] = "none"}
FreeChannels == {c \in ChannelIds : chans[c].readyState = "none"}

\* pc.ontrack: an audio track gets a new auto-playing Audio element.
ontrack(p, kind) ==
    /\ Negotiated(p)
    /\ IF kind = "audio"
       THEN /\ FreeSinks # {}
            /\ LET s == CHOOSE x \in FreeSinks : \A y \in FreeSinks : x <= y IN
                /\ sinks' = [sinks EXCEPT ![s] = "attached"]
                /\ remoteAudio' = s
       ELSE UNCHANGED <<sinks, remoteAudio>>
    /\ Handled(Ran("ontrack", NoFrame, kind, <<>>))
    /\ UNCHANGED <<pc, dc, localStream, sessionId, callbacks, _connected,
                   accumulatedBotText, pcs, streams, chans, utterance>>

\* pc.ondatachannel: the channel (already open, its open event still to
\* come) becomes this.dc and gets the data-channel handlers.
ondatachannel(p) ==
    /\ Negotiated(p) /\ FreeChannels # {}
    /\ LET c == CHOOSE x \in FreeChannels : \A y \in FreeChannels : x <= y IN
        /\ chans' = [chans EXCEPT ![c] = [NoChannel EXCEPT !.pc = p, !.readyState = "open"]]
        /\ dc' = c
    /\ Handled(Ran("ondatachannel", NoFrame, "", <<>>))
    /\ UNCHANGED <<pc, localStream, remoteAudio, sessionId, callbacks, _connected,
                   accumulatedBotText, pcs, streams, sinks, utterance>>

\* The state a handler reads: this.pc?.<state> || 'unknown'.
StateRead(ps, p, which) ==
    IF p = Null THEN "unknown"
    ELSE IF which = "ice" THEN ps[p].iceConnectionState ELSE ps[p].connectionState

\* Lines 207-209: what the ICE handler makes of the state it read.
IceConnected(state, was) == IF state \in Terminal THEN FALSE ELSE was

\* A connection-state handler that only ever raises the flag.
PeerConnectedNeverLost(state, was) == IF state = "connected" THEN TRUE ELSE was

\* Lines 217-221: what the connection-state handler makes of the state it read.
PeerConnected(state, was) ==
    IF state = "connected" THEN TRUE
    ELSE IF state \in Terminal THEN FALSE
    ELSE was

\* The ICE state of connection p moves to s; pc.oniceconnectionstatechange runs.
oniceconnectionstatechange(p, s) ==
    /\ Negotiated(p) /\ s \in IceNext(pcs[p].iceConnectionState)
    /\ pcs' = [pcs EXCEPT ![p].iceConnectionState = s, ![p].lost = @ \/ s \in Terminal]
    /\ LET state == StateRead(pcs', pc, "ice")
           threw == Throws(callbacks, Call("onConnectionStateChange", state, FALSE)) IN
        \* the callback (line 205) runs before the flag is updated (207-209)
        /\ _connected' = IF threw THEN _connected ELSE IceConnected(state, _connected)
        /\ Handled(Ended(Ran("oniceconnectionstatechange", NoFrame, state,
                             Invoke(callbacks, Call("onConnectionStateChange", state, FALSE))),
                         threw))
    /\ UNCHANGED <<pc, dc, localStream, remoteAudio, sessionId, callbacks,
                   accumulatedBotText, streams, chans, sinks, utterance>>

\* The state of connection p moves to s; pc.onconnectionstatechange runs.
onconnectionstatechange(p, s) ==
    /\ Negotiated(p) /\ s \in ConnNext(pcs[p].connectionState, pcs[p].iceConnectionState)
    /\ pcs' = [pcs EXCEPT ![p].connectionState = s, ![p].lost = @ \/ s \in Terminal]
    /\ LET state == StateRead(pcs', pc, "conn") IN
        /\ _connected' = PeerConnected(state, _connected)
        /\ Handled(Ran("onconnectionstatechange", NoFrame, state, <<>>))
    /\ UNCHANGED <<pc, dc, localStream, remoteAudio, sessionId, callbacks,
                   accumulatedBotText, streams, chans, sinks, utterance>>

\* --------------------------------------------------- data channel events
\* A handler that passes on the fragment instead of the accumulated text.
AppendTextFragmentOnly(acc, text) == text

\* this.accumulatedBotText += message.data.text
AppendText(acc, text) == acc \o text

\* A handler that forgets to reset on bot-llm-started.
StartedTextKept(acc) == acc

\* case 'bot-llm-started': this.accumulatedBotText = ''
StartedText(acc) == ""

\* message.data.final ?? false
\* A flag that reads an absent final as final.
FinalFlagAbsentIsFinal(final) == final # "false"

FinalFlag(final) == final = "true"

\* handleRTVIMessage(message): the new accumulated text and the callbacks invoked.
\* A bot-llm-stopped case that clears the buffer like bot-llm-started.
StoppedTextCleared(acc) == ""

\* case 'bot-llm-stopped' (lines 297-299): nothing is done.
StoppedText(acc) == acc

\* The speaking-state cases (lines 301-317).
SpeakingTypes ==
    {"bot-started-speaking", "bot-tts-started", "bot-stopped-speaking", "bot-tts-stopped",
     "user-started-speaking", "user-stopped-speaking"}

\* A dispatch table whose TTS cases are crossed.
SpeakingCallbackTtsCrossed(type) ==
    CASE type \in {"bot-started-speaking", "bot-tts-stopped"} -> "onBotStartedSpeaking"
      [] type \in {"bot-stopped-speaking", "bot-tts-started"} -> "onBotStoppedSpeaking"
      [] type = "user-started-speaking" -> "onUserStartedSpeaking"
      [] type = "user-stopped-speaking" -> "onUserStoppedSpeaking"

\* The callback each speaking-state case invokes.
SpeakingCallback(type) ==
    CASE type \in {"bot-started-speaking", "bot-tts-started"} -> "onBotStartedSpeaking"
      [] type \in {"bot-stopped-speaking", "bot-tts-stopped"} -> "onBotStoppedSpeaking"
      [] type = "user-started-speaking" -> "onUserStartedSpeaking"
      [] type = "user-stopped-speaking" -> "onUserStoppedSpeaking"

\* A switch whose default reports the unknown type to the caller.
UnknownTypeReported(acc, cbs) ==
    [text |-> acc, calls |-> Invoke(cbs, Call("onError", "unknown message type", FALSE))]

\* The switch (lines 275-324) has no default: a type without a case does nothing.
UnknownType(acc, cbs) == [text |-> acc, calls |-> <<>>]

handleRTVIMessage(acc, cbs, m) ==
    CASE m.type = "user-transcription" ->
            [text |-> acc,
             calls |-> IF m.text # Undefined
                       THEN Invoke(cbs, Call("onUserTranscript", m.text, FinalFlag(m.final)))
                       ELSE <<>>]
      [] m.type \in {"bot-llm-text", "bot-tts-text"} ->
            IF m.text # Undefined
            THEN [text |-> AppendText(acc, m.text),
                  calls |-> Invoke(cbs, Call("onBotTranscript", AppendText(acc, m.text), FALSE))]
            ELSE [text |-> acc, calls |-> <<>>]
      [] m.type = "bot-llm-started" -> [text |-> StartedText(acc), calls |-> <<>>]
      [] m.type = "bot-llm-stopped" -> [text |-> StoppedText(acc), calls |-> <<>>]
      [] m.type \in SpeakingTypes ->
            [text |-> acc, calls |-> Invoke(cbs, Call(SpeakingCallback(m.type), "", FALSE))]
      [] m.type = "error" ->
            [text |-> acc,
             calls |-> IF m.error \notin {Undefined, ""}
                       THEN Invoke(cbs, Call("onError", m.error, FALSE))
                       ELSE <<>>]
      [] OTHER -> UnknownType(acc, cbs)

\* The channel delivers messages: it is open and its open event has fired.
Delivering(c) == chans[c].readyState = "open" /\ chans[c].opened

\* A message handler that reports a frame it cannot parse to the caller.
ParseFailedReported(acc, cbs) ==
    [text |-> acc, calls |-> Invoke(cbs, Call("onError", "SyntaxError", FALSE))]

\* The catch of dc.onmessage (lines 263-265): the frame is logged and dropped.
ParseFailed(acc, cbs) == [text |-> acc, calls |-> <<>>]

\* A callback invoked by handleRTVIMessage threw: each case calls at most
\* one, as its last statement.
DispatchThrew(cbs, calls) == calls # <<>> /\ Throws(cbs, calls[Len(calls)])

\* A message handler whose try block covers JSON.parse alone.
DispatchCaughtParseOnly(threw) == threw

\* Lines 260-265: handleRTVIMessage is called inside the try block, so what a
\* callback throws is caught (and logged as a parse failure) by the handler.
\* The value is whether the exception leaves the handler.
DispatchCaught(threw) == FALSE

\* The handler of dc.onmessage runs on `frame`: JSON.parse, then
\* handleRTVIMessage; a parse failure is dropped.
Dispatched(frame) ==
    /\ (frame.type \in TextTypes /\ frame.text # Undefined) => Len(utterance.frags) < MaxFragments
    /\ LET r == IF frame.kind = "malformed"
                THEN ParseFailed(accumulatedBotText, callbacks)
                ELSE handleRTVIMessage(accumulatedBotText, callbacks, frame) IN
        /\ accumulatedBotText' = r.text
        /\ Handled(Ended(Ran("onmessage", frame, "", r.calls),
                         DispatchCaught(DispatchThrew(callbacks, r.calls))))
    /\ utterance' = Heard(utterance, "frame", frame)
    /\ UNCHANGED <<pc, dc, localStream, remoteAudio, sessionId, callbacks, _connected, world>>

\* dc.onmessage: the open channel c delivers a frame.
onmessage(c, frame) == Delivering(c) /\ Dispatched(frame)

\* The client-ready frame of sendClientReady().
ClientReady == [label |-> "rtvi-ai", type |-> "client-ready", idLength |-> 8, version |-> "1.0.0"]

\* sendClientReady(): sent on this.dc, and only if that channel is open.
sendClientReady(chs, d) ==
    IF d = Null \/ chs[d].readyState # "open" THEN chs
    ELSE [chs EXCEPT ![d].sent = Append(@, ClientReady)]

\* dc.onopen: the open event of channel c fires.
onopen(c) ==
    /\ chans[c].readyState = "open" /\ ~chans[c].opened
    /\ chans' = sendClientReady([chans EXCEPT ![c].opened = TRUE], dc)
    /\ Handled(Ran("onopen", NoFrame, "", <<>>))
    /\ UNCHANGED <<fields, pcs, streams, sinks, utterance>>

\* dc.onclose: the far end closed channel c; the handler only logs.
onclose(c) ==
    /\ chans[c].readyState = "open"
    /\ chans' = [chans EXCEPT ![c].readyState = "closed"]
    /\ Handled(Ran("onclose", NoFrame, "", <<>>))
    /\ UNCHANGED <<fields, pcs, streams, sinks, utterance>>

\* ---------------------------------------------------------- ICE candidates
\* The local description of connection p is set: the browser gathers
\* candidates for it, also while connect() is still waiting for the answer.
Gathering(p) == Alive(p) /\ (p < nConnects \/ \E i \in 1..Len(steps) : steps[i] = "offer")

\* A candidate handler that reports a failed delivery to the caller.
CandidateFailureReported(cbs, o) ==
    IF o.rejected \/ ~Ok(o.status)
    THEN Invoke(cbs, Call("onError", "Failed to send ICE candidate", FALSE))
    ELSE <<>>

\* Lines 227-238: what the handler tells the caller about the PATCH: a
\* rejection is caught and logged, the response's status is not looked at.
CandidateDelivered(cbs, o) == <<>>

\* A signaling request addressed to /sessions/<session>/api/offer.
Request(method, session) ==
    [kind |-> "request", type |-> method, text |-> Undefined, final |-> Undefined,
     error |-> Undefined, session |-> session]

\* A candidate handler that addresses the session of the connect() call made
\* last instead of reading the field.
PatchSessionOfCall(p) == nConnects

\* Lines 226-229: the PATCH of a candidate of connection p goes to
\* this.sessionId, read when the event is handled; none is sent without one.
PatchSession(p) == sessionId

\* Line 140: the offer POST goes to the session id this call parsed from the
\* /start response (a local of connect()).
OfferSession == nConnects

\* pc.onicecandidate: a candidate (or the end-of-candidates null) is
\* gathered; with a candidate and a session id the PATCH is sent and settles.
onicecandidate(p, candidate, o) ==
    /\ Gathering(p)
    /\ IF candidate /\ PatchSession(p) # Null
       THEN Handled(Ran("onicecandidate", Request("PATCH", PatchSession(p)),
                        IF o.rejected THEN FetchFailed ELSE ToString(o.status),
                        CandidateDelivered(callbacks, o)))
       ELSE Handled(Ran("onicecandidate", NoFrame, "not sent", <<>>))
    /\ UNCHANGED <<fields, world, utterance>>

\* ------------------------------------------------------------ late events
\* disconnect() closes the connection and the channel but leaves their
\* handlers set, and an event task the browser queued before the close runs
\* after disconnect() has returned.  The handler then finds the connection or
\* channel closed.
Stale(p) == pcs[p].life = "closed" /\ pcs[p].remote

StaleChannel(c) == chans[c].readyState = "closed"

\* A late ICE state event of the closed connection p.
late_oniceconnectionstatechange(p) ==
    /\ Stale(p)
    /\ LET state == StateRead(pcs, pc, "ice")
           threw == Throws(callbacks, Call("onConnectionStateChange", state, FALSE)) IN
        /\ _connected' = IF threw THEN _connected ELSE IceConnected(state, _connected)
        /\ Handled(Ended(Ran("oniceconnectionstatechange", NoFrame, state,
                             Invoke(callbacks, Call("onConnectionStateChange", state, FALSE))),
                         threw))
    /\ UNCHANGED <<pc, dc, localStream, remoteAudio, sessionId, callbacks,
                   accumulatedBotText, world, utterance>>

\* A late connection state event of the closed connection p.
late_onconnectionstatechange(p) ==
    /\ Stale(p)
    /\ LET state == StateRead(pcs, pc, "conn") IN
        /\ _connected' = PeerConnected(state, _connected)
        /\ Handled(Ran("onconnectionstatechange", NoFrame, state, <<>>))
    /\ UNCHANGED <<pc, dc, localStream, remoteAudio, sessionId, callbacks,
                   accumulatedBotText, world, utterance>>

\* A late candidate of the closed connection p.
late_onicecandidate(p, o) ==
    /\ Stale(p)
    /\ IF PatchSession(p) # Null
       THEN Handled(Ran("onicecandidate", Request("PATCH", PatchSession(p)),
                        IF o.rejected THEN FetchFailed ELSE ToString(o.status),
                        CandidateDelivered(callbacks, o)))
       ELSE Handled(Ran("onicecandidate", NoFrame, "not sent", <<>>))
    /\ UNCHANGED <<fields, world, utterance>>

\* The open event of channel c, closed before the event was dispatched.
late_onopen(c) ==
    /\ StaleChannel(c) /\ ~chans[c].opened
    /\ chans' = sendClientReady([chans EXCEPT ![c].opened = TRUE], dc)
    /\ Handled(Ran("onopen", NoFrame, "", <<>>))
    /\ UNCHANGED <<fields, pcs, streams, sinks, utterance>>

\* A frame received on channel c before the close and dispatched after it.
late_onmessage(c, frame) == StaleChannel(c) /\ chans[c].opened /\ Dispatched(frame)

\* ------------------------------------------------------------- microphone
\* A mute that enables the track it should disable.
SetEnabledInverted(strs, ls, muted) ==
    IF ls # Null THEN [strs EXCEPT ![ls].enabled = muted, ![ls].everMuted = @ \/ muted] ELSE strs

\* A mute that stops the track instead of disabling it.
SetEnabledByStopping(strs, ls, muted) ==
    IF ls # Null
    THEN [strs EXCEPT ![ls].enabled = ~muted, ![ls].everMuted = @ \/ muted,
                      ![ls].life = IF muted THEN "stopped" ELSE @]
    ELSE strs

\* Lines 392-395: track.enabled = !muted on the audio track of the held stream.
SetEnabled(strs, ls, muted) ==
    IF ls # Null THEN [strs EXCEPT ![ls].enabled = ~muted, ![ls].everMuted = @ \/ muted] ELSE strs

\* setMicMuted(muted): a synchronous call the caller may make at any time.
setMicMuted(muted) ==
    /\ streams' = SetEnabled(streams, localStream, muted)
    /\ last' = Ran("setMicMuted", NoFrame, IF muted THEN "true" ELSE "false", <<>>)
    /\ UNCHANGED <<fields, pcs, chans, sinks, call, utterance, jobDetail>>

\* get isMicMuted(): true without a local stream, else the audio track is disabled.
isMicMuted == IF localStream = Null THEN TRUE ELSE ~streams[localStream].enabled

\* --------------------------------------------------- job detail component
\* A status that ends a job, whatever its letter case: what `stopped` records.
Finished(status) ==
    \E word \in {COMPLETED, FAILED, CANCELLED} : toUpperCase(status) = word \/ toLowerCase(status) = toLowerCase(word)

\* The status check of lines 129 and 196 without toUpperCase().
IsTerminalCaseSensitive(status) == status \in {COMPLETED, FAILED, CANCELLED}

\* ['COMPLETED', 'FAILED', 'CANCELLED'].includes(status.toUpperCase())
IsTerminal(status) == toUpperCase(status) \in {COMPLETED, FAILED, CANCELLED}

\* The timer variable and the browser's timers, as startPolling() and
\* stopPolling() read and leave them.
Polling(interval, tms) == [statusPollInterval |-> interval, timers |-> tms]

FreeTimers(tms) == {t \in TimerIds : tms[t] = "none"}

\* setInterval(pollStatus, 3000): a new timer, active.
NewTimer(tms) == CHOOSE t \in FreeTimers(tms) : \A u \in FreeTimers(tms) : t <= u

\* A startPolling() without its guard: every call sets a new interval.
startPollingUnguarded(p) ==
    Polling(NewTimer(p.timers), [p.timers EXCEPT ![NewTimer(p.timers)] = "active"])

\* startPolling() (lines 137-140).
startPolling(p) ==
    IF p.statusPollInterval # Null THEN p
    ELSE Polling(NewTimer(p.timers), [p.timers EXCEPT ![NewTimer(p.timers)] = "active"])

\* stopPolling() (lines 142-147).
stopPolling(p) ==
    IF p.statusPollInterval # Null
    THEN Polling(Null, [p.timers EXCEPT ![p.statusPollInterval] = "cleared"])
    ELSE p

\* The component's timer state is left as p.
Polls(p) == statusPollInterval' = p.statusPollInterval /\ timers' = p.timers

\* What getJob() may settle to: a rejection or a job with some status.
JobOutcomes == {[rejected |-> TRUE, status |-> <<>>]} \cup {[rejected |-> FALSE, status |-> st] : st \in JobStatuses}

\* loadJob() from its await on (lines 105-111): the job is stored or the
\* error noted, and loading ends.
loadJobSettles(o) ==
    /\ job' = IF o.rejected THEN job ELSE Job(o.status)
    /\ loadError' = o.rejected
    /\ loading' = FALSE

\* Svelte runs onMount: loadJob() is called and suspends at getJob().
onMount ==
    /\ mounted = "no"
    /\ mounted' = "yes" /\ loadingJob' = "yes"
    /\ loading' = TRUE /\ loadError' = FALSE
    /\ UNCHANGED <<job, statusPollInterval, timers, resuming, polling, stopped, service>>

\* The getJob() of onMount settles; onMount goes on (lines 195-198) and
\* starts polling when the job is active, whether or not the component is
\* still there.
onMount_loadJob ==
    /\ loadingJob = "yes" /\ FreeTimers(timers) # {}
    /\ \E o \in JobOutcomes :
        /\ loadJobSettles(o)
        /\ Polls(IF job'.loaded /\ ~IsTerminal(job'.status)
                 THEN startPolling(Polling(statusPollInterval, timers))
                 ELSE Polling(statusPollInterval, timers))
    /\ loadingJob' = "done"
    /\ UNCHANGED <<mounted, resuming, polling, stopped, service>>

\* Svelte destroys the component: onDestroy calls stopPolling().
onDestroy ==
    /\ mounted = "yes"
    /\ mounted' = "destroyed"
    /\ Polls(stopPolling(Polling(statusPollInterval, timers)))
    /\ UNCHANGED <<job, loading, loadError, loadingJob, resuming, polling, stopped, service>>

\* The Resume button is rendered (lines 209-269): the component is there,
\* not loading, without a load error, and the job's status is PAUSED.
ResumeShown ==
    /\ mounted = "yes" /\ ~loading /\ ~loadError
    /\ job.loaded /\ toUpperCase(job.status) = PAUSED

\* A click on Resume: handleResume() suspends at resumeJob().
handleResume ==
    /\ ResumeShown
    /\ resuming.resumeJob + resuming.loadJob < MaxResumes
    /\ resuming' = [resuming EXCEPT !.resumeJob = @ + 1]
    /\ UNCHANGED <<job, loading, loadError, statusPollInterval, timers, mounted, loadingJob,
                   polling, stopped, service>>

\* resumeJob() settles: on success loadJob() is called and suspends at
\* getJob(); a rejection ends handleResume() in its catch.
handleResume_resumeJob ==
    /\ resuming.resumeJob > 0
    /\ \E resumed \in BOOLEAN :
        IF resumed
        THEN /\ resuming' = [resumeJob |-> resuming.resumeJob - 1, loadJob |-> resuming.loadJob + 1]
             /\ loading' = TRUE /\ loadError' = FALSE
        ELSE /\ resuming' = [resuming EXCEPT !.resumeJob = @ - 1]
             /\ UNCHANGED <<loading, loadError>>
    /\ UNCHANGED <<job, statusPollInterval, timers, mounted, loadingJob, polling, stopped, service>>

\* The getJob() of handleResume() settles; startPolling() follows (line 164).
handleResume_loadJob ==
    /\ resuming.loadJob > 0 /\ FreeTimers(timers) # {}
    /\ \E o \in JobOutcomes : loadJobSettles(o)
    /\ Polls(startPolling(Polling(statusPollInterval, timers)))
    /\ resuming' = [resuming EXCEPT !.loadJob = @ - 1]
    /\ stopped' = FALSE
    /\ UNCHANGED <<mounted, loadingJob, polling, service>>

\* The interval of timer t elapses: pollStatus() runs and, with a job,
\* suspends at getJobStatus().
pollStatus(t) ==
    /\ timers[t] = "active"
    /\ job.loaded /\ polling < MaxPolls
    /\ polling' = polling + 1
    /\ UNCHANGED <<job, loading, loadError, statusPollInterval, timers, mounted, loadingJob,
                   resuming, stopped, service>>

\* A getJobStatus() settles: the job's status is updated and polling is
\* stopped on a terminal status; a rejection is logged.  `stopped` records
\* that a poll returned a terminal status since polling was last resumed.
pollStatus_getJobStatus ==
    /\ polling > 0
    /\ polling' = polling - 1
    /\ \E o \in JobOutcomes :
        IF o.rejected
        THEN UNCHANGED <<job, statusPollInterval, timers, stopped>>
        ELSE /\ job' = IF job.loaded THEN Job(o.status) ELSE job
             /\ Polls(IF IsTerminal(o.status)
                      THEN stopPolling(Polling(statusPollInterval, timers))
                      ELSE Polling(statusPollInterval, timers))
             /\ stopped' = (stopped \/ Finished(o.status))
    /\ UNCHANGED <<loading, loadError, mounted, loadingJob, resuming, service>>

\* ----------------------------------------------------------- specifications

\* The steps a pending connect() call takes as its awaits settle.
Connecting ==
    \/ connect_start
    \/ connect_startJson
    \/ connect_getUserMedia
    \/ connect_createOffer
    \/ connect_setLocalDescription
    \/ connect_offer
    \/ connect_offerJson
    \/ connect_setRemoteDescription

\* The transport of a negotiated connection changes state.
Transport ==
    \/ \E p \in ConnectIds, s \in IceStates : oniceconnectionstatechange(p, s)
    \/ \E p \in ConnectIds, s \in ConnStates : onconnectionstatechange(p, s)
    \/ \E p \in ConnectIds, candidate \in BOOLEAN, o \in FetchOutcomes : onicecandidate(p, candidate, o)

\* One session at a time: the caller connects an instance that holds no
\* session, and the server opens one control channel and sends one audio
\* track per session.
Next ==
    \/ pc = Null /\ connect
    \/ Connecting
    \/ disconnect
    \/ Transport
    \/ \E p \in ConnectIds, kind \in {"audio", "video"} : remoteAudio = Null /\ ontrack(p, kind)
    \/ \E p \in ConnectIds : dc = Null /\ ondatachannel(p)
    \/ \E c \in ChannelIds : onopen(c)
    \/ \E c \in ChannelIds : onclose(c)

Spec == Init /\ [][Next]_vars

\* One session at a time, with every frame the server may send on the
\* control channel; the transport stays as negotiated.
NextProtocol ==
    \/ pc = Null /\ connect
    \/ Connecting
    \/ disconnect
    \/ \E p \in ConnectIds, kind \in {"audio", "video"} : remoteAudio = Null /\ ontrack(p, kind)
    \/ \E p \in ConnectIds : dc = Null /\ ondatachannel(p)
    \/ \E c \in ChannelIds : onopen(c)
    \/ \E c \in ChannelIds : onclose(c)
    \/ \E c \in ChannelIds, frame \in Frames : onmessage(c, frame)

SpecProtocol == Init /\ [][NextProtocol]_vars

\* The caller may call connect() again on an instance that still holds a
\* session, and the server may open several channels and send several tracks.
NextReconnect ==
    \/ connect
    \/ Connecting
    \/ disconnect
    \/ \E p \in ConnectIds, kind \in {"audio", "video"} : ontrack(p, kind)
    \/ \E p \in ConnectIds : ondatachannel(p)
    \/ \E c \in ChannelIds : onopen(c)
    \/ \E c \in ChannelIds : onclose(c)

SpecReconnect == Init /\ [][NextReconnect]_vars

\* The caller's calls alone: connect(), disconnect() and setMicMuted() in
\* any order, setMicMuted() also while connect() is suspended.
NextMic ==
    \/ connect
    \/ Connecting
    \/ disconnect
    \/ \E muted \in BOOLEAN : setMicMuted(muted)

SpecMic == Init /\ [][NextMic]_vars

\* The signaling side alone: connect() and disconnect() in any order, also
\* connect() over a held session, and the candidates the connections gather.
NextSignaling ==
    \/ connect
    \/ Connecting
    \/ disconnect
    \/ \E p \in ConnectIds, candidate \in BOOLEAN, o \in FetchOutcomes : onicecandidate(p, candidate, o)

SpecSignaling == Init /\ [][NextSignaling]_vars

\* Every operation connect() awaits settles: a suspended connect() is
\* eventually resumed.
SpecSettles == Init /\ [][NextSignaling]_vars /\ WF_vars(Connecting)

\* One session at a time, with callbacks that may throw: the caller passes
\* any of the callbacks objects, and the server sends frames on the channel.
NextThrowing ==
    \/ \E cbs \in CallbackSets : pc = Null /\ connectWith(cbs)
    \/ Connecting
    \/ disconnect
    \/ \E p \in ConnectIds : dc = Null /\ ondatachannel(p)
    \/ \E c \in ChannelIds : onopen(c)
    \/ \E c \in ChannelIds, frame \in Frames : onmessage(c, frame)

SpecThrowing == Init /\ [][NextThrowing]_vars

\* The caller does not wait for connect() to settle: disconnect() is also
\* called while connect() is suspended.
NextOverlap ==
    \/ pc = Null /\ connect
    \/ Connecting
    \/ disconnect
    \/ disconnectWhileConnecting

SpecOverlap == Init /\ [][NextOverlap]_vars

\* One session at a time, with the events that reach the handlers of a
\* connection or channel after disconnect() closed it.
NextLate ==
    \/ pc = Null /\ connect
    \/ Connecting
    \/ disconnect
    \/ \E p \in ConnectIds : dc = Null /\ ondatachannel(p)
    \/ \E c \in ChannelIds : onopen(c)
    \/ \E c \in ChannelIds, frame \in Frames : onmessage(c, frame)
    \/ \E p \in ConnectIds : late_oniceconnectionstatechange(p)
    \/ \E p \in ConnectIds : late_onconnectionstatechange(p)
    \/ \E p \in ConnectIds, o \in FetchOutcomes : late_onicecandidate(p, o)
    \/ \E c \in ChannelIds : late_onopen(c)
    \/ \E c \in ChannelIds, frame \in Frames : late_onmessage(c, frame)

SpecLate == Init /\ [][NextLate]_vars

\* The job detail component: its mount, the Resume button, the timer and
\* the status requests, and its destruction at any moment after the mount
\* began.  (handlePause and handleCancel only reload the job.)
NextJobDetail ==
    \/ onMount
    \/ onMount_loadJob
    \/ onDestroy
    \/ handleResume
    \/ handleResume_resumeJob
    \/ handleResume_loadJob
    \/ \E t \in TimerIds : pollStatus(t)
    \/ pollStatus_getJobStatus

SpecJobDetail == Init /\ [][NextJobDetail]_vars

\* Any interleaving of the caller's connect() and disconnect() calls, made
\* without waiting for one another, with the state changes of the transport
\* of every connection built.
NextInterleaved ==
    \/ connect
    \/ Connecting
    \/ disconnect
    \/ disconnectWhileConnecting
    \/ \E p \in ConnectIds, s \in IceStates : oniceconnectionstatechange(p, s)
    \/ \E p \in ConnectIds, s \in ConnStates : onconnectionstatechange(p, s)

SpecInterleaved == Init /\ [][NextInterleaved]_vars

\* ------------------------------------------------------------------ claims
RECURSIVE Concat(_)
\* The fragments of a history joined in arrival order.
Concat(frags) == IF frags = <<>> THEN "" ELSE Head(frags) \o Concat(Tail(frags))

\* The handler that ran last was onmessage on a frame carrying a text fragment.
TextFrameRan ==
    /\ last.op = "onmessage" /\ last.frame.kind = "json"
    /\ last.frame.type \in {"bot-llm-text", "bot-tts-text"}
    /\ last.frame.text # Undefined

\* C1: a bot-llm-text or bot-tts-text frame carrying a text fragment invokes
\* onBotTranscript exactly once, with the concatenation, in arrival order, of
\* every fragment received since the most recent connect(), disconnect() or
\* bot-llm-started frame.
C1_CumulativeTranscript ==
    TextFrameRan => last.calls = <<Call("onBotTranscript", Concat(utterance.frags), FALSE)>>

\* C1 witness: "Hel" then "lo" have arrived and the callback was given "Hello".
C1_Witness ==
    /\ TextFrameRan
    /\ utterance.frags = <<"Hel", "lo">>
    /\ last.calls = <<Call("onBotTranscript", "Hello", FALSE)>>

\* C2: a bot-llm-started frame empties the accumulated text and invokes no
\* callback, and the first fragment after it is passed to onBotTranscript
\* alone, without any text received before the reset.
C2_StartedResets ==
    /\ (last.op = "onmessage" /\ last.frame.type = "bot-llm-started")
            => (accumulatedBotText = "" /\ last.calls = <<>>)
    /\ (TextFrameRan /\ utterance.reset = "bot-llm-started" /\ Len(utterance.frags) = 1)
            => last.calls = <<Call("onBotTranscript", last.frame.text, FALSE)>>

\* C2 witness: text was received, bot-llm-started discarded it, and the next
\* fragment "lo" reached the callback as "lo".
C2_Witness ==
    /\ TextFrameRan
    /\ utterance.reset = "bot-llm-started" /\ utterance.dropped
    /\ utterance.frags = <<"lo">>
    /\ last.calls = <<Call("onBotTranscript", "lo", FALSE)>>

\* The state disconnect() leaves the instance in: nothing held, not connected.
HoldsNothing ==
    /\ pc = Null /\ dc = Null /\ localStream = Null /\ remoteAudio = Null
    /\ sessionId = Null /\ ~_connected /\ accumulatedBotText = ""

\* C3: disconnect() called twice in a row: the second call changes nothing,
\* neither in the instance nor in the objects it released, and reports the
\* same as the first.
C3_DisconnectIdempotent ==
    [][(last.op = "disconnect" /\ last'.op = "disconnect")
            => (fields' = fields /\ world' = world /\ last' = last)]_vars

\* C3 witness: disconnect() has run on an instance whose connect() had
\* resolved, and closed its peer connection.
C3_Witness ==
    /\ last.op = "disconnect" /\ result = "resolved"
    /\ \E k \in ConnectIds : pcs[k].life = "closed"

\* A pending connect() is rejected in this step: its catch block runs.
CatchRuns == at # "idle" /\ result' = "rejected"

\* C4: when disconnect() returns, called by the caller or by connect()'s
\* error path, every track of the stream the instance held is stopped, its
\* playback sink detached, its data channel and its peer connection closed,
\* and the instance holds nothing, is not connected and has no text.
C4_DisconnectReleases ==
    [][(last'.op = "disconnect" \/ CatchRuns) =>
            /\ localStream # Null => streams'[localStream].life = "stopped"
            /\ remoteAudio # Null => sinks'[remoteAudio] = "detached"
            /\ dc # Null => chans'[dc].readyState = "closed"
            /\ pc # Null => pcs'[pc].life = "closed"
            /\ HoldsNothing']_vars

\* C4 witness: disconnect() ran on a session with a live stream, a playing
\* sink, an open channel that had sent client-ready, and received text.
C4_Witness ==
    /\ last.op = "disconnect" /\ HoldsNothing
    /\ utterance.reset = "disconnect" /\ utterance.dropped
    /\ \E k \in ConnectIds : streams[k].life = "stopped" /\ pcs[k].life = "closed"
    /\ \E x \in SinkIds : sinks[x] = "detached"
    /\ \E c \in ChannelIds : chans[c].readyState = "closed" /\ chans[c].sent # <<>>

\* The statuses of a response that is not a success.
Refusals == {ToString(n) : n \in {m \in Statuses : m < 200 \/ m > 299}}

\* C5: POST /start answered with a non-success status: connect() is rejected
\* with an error naming the status, having requested no microphone, built no
\* peer connection and sent no offer; no local stream is held (isMicMuted)
\* and connected is false.
C5_StartRefused ==
    (last.op = "connect_start" /\ last.state \in Refusals) =>
        /\ at = "idle" /\ result = "rejected"
        /\ error = "Failed to create session: " \o last.state
        /\ steps = <<"start">>
        /\ pcs[nConnects].life = "none" /\ streams[nConnects].life = "none"
        /\ localStream = Null /\ isMicMuted /\ ~_connected

\* C5 witness: the second connect() of an instance still holding a live
\* session is refused with 404, and the stream it held is stopped.
C5_Witness ==
    /\ last.op = "connect_start" /\ last.state = "404"
    /\ error = "Failed to create session: 404"
    /\ \E k \in ConnectIds : streams[k].life = "stopped"

ConnectSteps ==
    {"connect_start", "connect_startJson", "connect_getUserMedia", "connect_createOffer",
     "connect_setLocalDescription", "connect_offer", "connect_offerJson",
     "connect_setRemoteDescription"}

\* The step of connect() that ran last failed.
StepFailed == last.op \in ConnectSteps /\ last.state \notin {"ok", "200"}

\* The error a failed step throws: the rejection reason, or the message
\* built from the response's status.
Thrown ==
    IF last.state \in Refusals
    THEN (IF last.op = "connect_start" THEN "Failed to create session: " ELSE "Failed to send offer: ")
         \o last.state
    ELSE last.state

\* C6: whichever step of connect() fails, onError is invoked once with the
\* error, then the full disconnect runs (the stream and the connection this
\* connect() acquired are stopped and closed, nothing is held), and connect()
\* is rejected with that same error.
C6_FailureCleansUp ==
    StepFailed =>
        /\ last.calls = <<Call("onError", Thrown, FALSE), Disconnected>>
        /\ at = "idle" /\ result = "rejected" /\ error = Thrown
        /\ HoldsNothing
        /\ pcs[nConnects].life # "open" /\ streams[nConnects].life # "live"

\* C6 witness: setRemoteDescription is rejected after the microphone was
\* captured; the stream is stopped and the connection closed.
C6_Witness ==
    /\ last.op = "connect_setRemoteDescription" /\ last.state = "InvalidAccessError"
    /\ streams[nConnects].life = "stopped" /\ pcs[nConnects].life = "closed"
    /\ result = "rejected"

\* C7: when getUserMedia is refused, connect() is rejected with that error,
\* no offer is created or posted, the peer connection built just before is
\* closed and connected is false.
C7_MediaFailureAborts ==
    (last.op = "connect_getUserMedia" /\ last.state = "NotAllowedError") =>
        /\ at = "idle" /\ result = "rejected" /\ error = "NotAllowedError"
        /\ \A i \in 1..Len(steps) :
              steps[i] \notin {"createOffer", "setLocalDescription", "offer", "setRemoteDescription"}
        /\ pcs[nConnects].life = "closed"
        /\ ~_connected

\* C7 witness: the microphone was refused and the new connection is closed.
C7_Witness ==
    /\ last.op = "connect_getUserMedia" /\ last.state = "NotAllowedError"
    /\ steps = <<"start", "pc", "getUserMedia">>
    /\ pcs[nConnects].life = "closed" /\ result = "rejected"

\* The transport of connection p reports a connected state.
TransportUp(p) ==
    \/ pcs[p].connectionState = "connected"
    \/ pcs[p].iceConnectionState \in {"connected", "completed"}

\* C8: connected is true only when the transport has reported a connected
\* state and the control channel has opened.
C8_ConnectedMeansReady ==
    _connected => (/\ pc # Null /\ TransportUp(pc)
                   /\ dc # Null /\ chans[dc].opened)

\* C9: once the transport of the current session has reported disconnected,
\* failed or closed, connected is not true again in that session.
C9_TerminalAbsorbing ==
    (pc # Null /\ pcs[pc].lost) => ~_connected

\* C10: while the ICE connection state or the connection state last reported
\* by the current peer connection is disconnected, failed or closed,
\* connected is false.
C10_UnionOfFailures ==
    (pc # Null /\ (\/ pcs[pc].iceConnectionState \in Terminal
                   \/ pcs[pc].connectionState \in Terminal))
        => ~_connected

\* C10 witness: ICE reports disconnected while the connection state still
\* reads connected, and connected is false.
C10_Witness ==
    /\ last.op = "oniceconnectionstatechange" /\ last.state = "disconnected"
    /\ pc # Null /\ pcs[pc].connectionState = "connected"
    /\ pcs[pc].iceConnectionState = "disconnected"
    /\ ~_connected

\* C11: every data channel whose open event has fired has been sent exactly
\* one frame, the client-ready frame, and nothing before it.
C11_ClientReadyOnOpen ==
    \A c \in ChannelIds : chans[c].opened => chans[c].sent = <<ClientReady>>

\* C12: a frame is sent on a data channel only while the channel is open and
\* after its open event has fired; a channel closed by disconnect() is sent
\* nothing more.
C12_SendOnlyWhenOpen ==
    [][\A c \in ChannelIds :
          chans'[c].sent # chans[c].sent
              => (chans'[c].readyState = "open" /\ chans'[c].opened)]_vars

\* C13: when the remote description has been applied connect() resolves,
\* with connected true and onConnectionStateChange("connected") invoked; and
\* a resolved connect() has always had its remote description applied, after
\* every earlier step.
C13_ResolvesWhenNegotiated ==
    /\ (last.op = "connect_setRemoteDescription" /\ last.state = "ok") =>
            /\ at = "idle" /\ result = "resolved" /\ _connected
            /\ last.calls = <<Call("onConnectionStateChange", "connected", FALSE)>>
    /\ result = "resolved" =>
            /\ pcs[nConnects].remote
            /\ steps[Len(steps)] = "setRemoteDescription"

\* C13 witness: connect() has just resolved with the microphone captured.
C13_Witness ==
    /\ last.op = "connect_setRemoteDescription" /\ last.state = "ok"
    /\ result = "resolved" /\ _connected /\ pcs[pc].remote
    /\ localStream # Null /\ streams[localStream].life = "live"

\* C14: a frame that is not parseable JSON invokes no callback and changes
\* nothing of the instance, the browser objects or the utterance being
\* accumulated, so the frames around it are handled as if it had not come.
C14_MalformedDropped ==
    [][(last'.op = "onmessage" /\ last'.frame.kind = "malformed")
            => (/\ last'.calls = <<>>
                /\ UNCHANGED <<fields, world, call, utterance>>)]_vars

\* C14 witness: a malformed frame arrived in the middle of an utterance and
\* the text accumulated so far is still there.
C14_Witness ==
    /\ last.op = "onmessage" /\ last.frame.kind = "malformed"
    /\ accumulatedBotText = "Hel" /\ utterance.frags = <<"Hel">>

\* C15: isMicMuted read right after setMicMuted(true) is true, and
\* isMicMuted is true whenever the instance holds no local stream.
C15_MutedReadsTrue ==
    /\ (last.op = "setMicMuted" /\ last.state = "true") => isMicMuted
    /\ localStream = Null => isMicMuted

\* C15 witness: setMicMuted(true) has just disabled the live track of the
\* held stream.
C15_Witness ==
    /\ last.op = "setMicMuted" /\ last.state = "true"
    /\ localStream # Null /\ streams[localStream].life = "live"
    /\ ~streams[localStream].enabled /\ isMicMuted

\* C16: setMicMuted changes nothing but the enabled flag of the held audio
\* track: no track is stopped or removed from the connection, no request is
\* started, connected, the session id and the connection stay as they were;
\* and setMicMuted(false) on a held stream leaves isMicMuted false.
C16_MuteOnlyDisables ==
    [][last'.op = "setMicMuted" =>
            /\ UNCHANGED <<fields, pcs, chans, sinks, call>>
            /\ \A k \in ConnectIds :
                  /\ streams'[k].life = streams[k].life
                  /\ k # localStream => streams'[k] = streams[k]
            /\ (last'.state = "false" /\ localStream # Null) => ~isMicMuted']_vars

\* C16 witness: the held stream was muted and has been unmuted again; its
\* track is live, enabled and still attached to the connection.
C16_Witness ==
    /\ last.op = "setMicMuted" /\ last.state = "false"
    /\ localStream # Null /\ streams[localStream].everMuted
    /\ streams[localStream].life = "live" /\ ~isMicMuted
    /\ pc # Null /\ localStream \in pcs[pc].tracks

\* The transport handler that ran in this step turned connected from true
\* to false.
LossByTransport ==
    /\ last'.op \in {"oniceconnectionstatechange", "onconnectionstatechange"}
    /\ _connected /\ ~_connected'

\* C17: every loss of the connection by a transport event is reported: the
\* handler that turns connected from true to false invokes
\* onConnectionStateChange or onError.
C17_LossReported ==
    [][LossByTransport =>
          \E i \in 1..Len(last'.calls) :
              last'.calls[i].cb \in {"onConnectionStateChange", "onError"}]_vars

\* C18: the candidate handler, whatever becomes of its PATCH, invokes no
\* callback and changes nothing: connect() stays pending or settled as it
\* was, connected, the session id and every held resource are unchanged.
C18_CandidateBestEffort ==
    [][last'.op = "onicecandidate" =>
            /\ last'.calls = <<>>
            /\ UNCHANGED <<fields, world, call, utterance>>]_vars

\* C18 witness: the PATCH of a candidate gathered while connect() awaits the
\* answer is rejected, and connect() is still pending.
C18_Witness ==
    /\ last.op = "onicecandidate" /\ last.state = FetchFailed
    /\ result = "pending" /\ at = "offerJson" /\ sessionId # Null

\* The peer connections the instance built that are not closed, and the
\* streams it acquired whose tracks are not stopped.
OpenPeers == {k \in ConnectIds : pcs[k].life = "open"}
LiveStreams == {k \in ConnectIds : streams[k].life = "live"}

\* C19: at every moment at most one peer connection built by the instance
\* is not closed and at most one acquired stream has unstopped tracks.
C19_OneSessionAlive ==
    Cardinality(OpenPeers) <= 1 /\ Cardinality(LiveStreams) <= 1

\* C20: when disconnect() has returned, every track the instance ever
\* acquired is stopped and every peer connection it ever built is closed.
C20_TeardownReleasesAll ==
    last.op = "disconnect" => (OpenPeers = {} /\ LiveStreams = {})

\* The session of connect() call k has been torn down: disconnect() (the
\* caller's or the catch block's) closed its connection and cleared its id.
TornDown(k) == pcs[k].life = "closed"

\* The step starts the offer POST of the connect() call in flight.
OfferPosted == Len(steps') = Len(steps) + 1 /\ steps'[Len(steps')] = "offer"

\* C21: a session id is stored only by the connect() call that obtained it
\* from its own POST /start, is one no earlier call had, and no offer POST or
\* candidate PATCH is addressed to a session that has been torn down.
C21_NoTornDownSession ==
    [][/\ (sessionId' # sessionId /\ sessionId' # Null) =>
              /\ last'.op = "connect_startJson" /\ steps[1] = "start"
              /\ sessionId' = nConnects /\ pcs[sessionId'].life = "none"
       /\ OfferPosted => ~TornDown(OfferSession)
       /\ (last'.op = "onicecandidate" /\ last'.frame.kind = "request")
              => ~TornDown(last'.frame.session)]_vars

\* C21 witness: after a first session was torn down, a candidate of the
\* second session is sent with the second session's id.
C21_Witness ==
    /\ last.op = "onicecandidate" /\ last.frame.kind = "request"
    /\ last.frame.session = 2 /\ sessionId = 2 /\ TornDown(1)

\* The operations of a connect() in the order the handshake prescribes,
\* with and without the microphone.
WithMic ==
    <<"start", "pc", "getUserMedia", "addTrack", "createOffer", "setLocalDescription",
      "offer", "setRemoteDescription">>
WithoutMic ==
    <<"start", "pc", "createOffer", "setLocalDescription", "offer", "setRemoteDescription">>

IsPrefix(s, t) == Len(s) <= Len(t) /\ \A i \in 1..Len(s) : s[i] = t[i]

\* C22: the operations a connect() has started are always a prefix of the
\* prescribed order, an operation is started only by a step that succeeded,
\* and a failed step starts nothing.
C22_StepsInOrder ==
    [][/\ IsPrefix(steps', WithMic) \/ IsPrefix(steps', WithoutMic)
       /\ (Len(steps') > Len(steps) /\ last'.op # "connect") => last'.state \in {"ok", "200"}
       /\ StepFailed' => steps' = steps]_vars

\* C22 witness: a connect() with the microphone has gone through every
\* operation and resolved.
C22_Witness == steps = WithMic /\ result = "resolved" /\ at = "idle"

\* C23: a pending connect() is eventually resolved or rejected when every
\* operation it awaits settles, and a failed step leaves it rejected.
C23_ConnectSettles ==
    /\ (result = "pending") ~> (result \in {"resolved", "rejected"})
    /\ [](StepFailed => result = "rejected")

\* C23 witness: the offer exchange was answered 500 and connect() is
\* rejected with the error naming it.
C23_Witness ==
    /\ last.op = "connect_offer" /\ last.state = "500"
    /\ result = "rejected" /\ error = "Failed to send offer: 500"

\* dc.onmessage has just handled a parsed frame of type `type`.
FrameRan(type) ==
    last.op = "onmessage" /\ last.frame.kind = "json" /\ last.frame.type = type

\* The step leaves the session as it was: connected, the held resources, the
\* browser objects and the connect() call.
SessionUntouched ==
    UNCHANGED <<pc, dc, localStream, remoteAudio, sessionId, callbacks, _connected, world, call>>

\* C24: every error frame invokes onError once with the error text the
\* server sent, and leaves connected and the held resources unchanged.
C24_ErrorFrameReported ==
    [][FrameRan("error")' =>
            /\ last'.calls = <<Call("onError", last'.frame.error, FALSE)>>
            /\ SessionUntouched]_vars

\* C25: a user-transcription frame carrying text invokes onUserTranscript
\* once with the text and the final flag, false when the flag is absent,
\* invokes nothing else and leaves the accumulated bot text unchanged.
C25_UserTranscript ==
    [][(FrameRan("user-transcription")' /\ last'.frame.text # Undefined) =>
            /\ last'.calls = <<Call("onUserTranscript", last'.frame.text,
                                    last'.frame.final = "true")>>
            /\ UNCHANGED <<accumulatedBotText, utterance>>
            /\ SessionUntouched]_vars

\* C25 witness: a transcription without a final flag was reported as partial.
C25_Witness ==
    /\ FrameRan("user-transcription") /\ last.frame.text = "hi"
    /\ last.frame.final = Undefined
    /\ last.calls = <<Call("onUserTranscript", "hi", FALSE)>>

\* The callback the dispatch table of the protocol gives each speaking-state
\* frame.
Expected(type) ==
    CASE type = "bot-started-speaking" -> "onBotStartedSpeaking"
      [] type = "bot-tts-started" -> "onBotStartedSpeaking"
      [] type = "bot-stopped-speaking" -> "onBotStoppedSpeaking"
      [] type = "bot-tts-stopped" -> "onBotStoppedSpeaking"
      [] type = "user-started-speaking" -> "onUserStartedSpeaking"
      [] type = "user-stopped-speaking" -> "onUserStoppedSpeaking"

\* C26: each speaking-state frame invokes exactly the one callback of its
\* type and leaves the accumulated bot text unchanged.
C26_SpeakingDispatch ==
    [][(last'.op = "onmessage" /\ last'.frame.kind = "json"
            /\ last'.frame.type \in SpeakingTypes) =>
            /\ last'.calls = <<Call(Expected(last'.frame.type), "", FALSE)>>
            /\ UNCHANGED <<accumulatedBotText, utterance>>
            /\ SessionUntouched]_vars

\* C26 witness: bot-tts-stopped arrived in the middle of an utterance and
\* invoked onBotStoppedSpeaking.
C26_Witness ==
    /\ FrameRan("bot-tts-stopped") /\ accumulatedBotText = "Hel"
    /\ last.calls = <<Call("onBotStoppedSpeaking", "", FALSE)>>

\* C27: a parsed frame whose type has no case invokes no callback and
\* changes nothing.
C27_UnknownIgnored ==
    [][(last'.op = "onmessage" /\ last'.frame.kind = "json"
            /\ last'.frame.type \notin RTVIMessageType) =>
            /\ last'.calls = <<>>
            /\ UNCHANGED <<accumulatedBotText, utterance>>
            /\ SessionUntouched]_vars

\* C27 witness: a server-message frame arrived in the middle of an utterance.
C27_Witness ==
    /\ FrameRan("server-message") /\ accumulatedBotText = "Hel" /\ last.calls = <<>>

\* C28: bot-llm-stopped invokes no callback and leaves the accumulated text
\* unchanged, and a text fragment that comes right after it is appended to
\* the same text.
C28_StoppedKeepsText ==
    [][/\ FrameRan("bot-llm-stopped")' =>
              /\ last'.calls = <<>>
              /\ UNCHANGED <<accumulatedBotText, utterance>>
              /\ SessionUntouched
       /\ (FrameRan("bot-llm-stopped") /\ TextFrameRan') =>
              /\ accumulatedBotText' = accumulatedBotText \o last'.frame.text
              /\ last'.calls = <<Call("onBotTranscript", accumulatedBotText', FALSE)>>]_vars

\* C28 witness: bot-llm-stopped arrived after the fragment "Hel".
C28_Witness ==
    /\ FrameRan("bot-llm-stopped") /\ accumulatedBotText = "Hel"
    /\ utterance.frags = <<"Hel">> /\ last.calls = <<>>

\* The /start response of the step that ran last supplies an ICE server list.
Supplied == last.frame.iceConfig.given /\ last.frame.iceConfig.iceServers.given

\* C29: the peer connection is built with the server's ICE server list when
\* the /start response supplies one, and with the single server
\* stun:stun.l.google.com:19302 when it omits the configuration or the list.
C29_IceServers ==
    (last.op = "connect_startJson" /\ last.state = "ok") =>
        /\ pc = nConnects /\ pcs[pc].life = "open"
        /\ Supplied => last.frame.iceServers = last.frame.iceConfig.iceServers.urls
        /\ ~Supplied => last.frame.iceServers = <<"stun:stun.l.google.com:19302">>

\* C29 witness: the server supplied its TURN server and the connection was
\* built with it.
C29_Witness ==
    /\ last.op = "connect_startJson" /\ last.state = "ok"
    /\ last.frame.iceServers = <<"turn:turn.example.org:3478">>

\* Every open connection is the one the instance holds: a remote track can
\* only come from the current session.
OnlyCurrentSession == \A k \in ConnectIds : pcs[k].life = "open" => k = pc

\* C30: once a sink is bound in a session, a later remote track of that
\* session, audio or not, leaves the binding and the sinks as they are; a
\* track that is not audio never creates a sink.
C30_SinkBoundOnce ==
    [][last'.op = "ontrack" =>
            /\ (OnlyCurrentSession /\ remoteAudio # Null) => UNCHANGED <<remoteAudio, sinks>>
            /\ last'.state # "audio" => UNCHANGED <<remoteAudio, sinks>>]_vars

\* C31: when a step of connect() fails, also with an onError callback that
\* throws, connect() rejects with the full disconnect done: no peer
\* connection is left open and no local track unstopped.
C31_CleanupDespiteThrow ==
    (StepFailed /\ result = "rejected") =>
        \A k \in ConnectIds : pcs[k].life # "open" /\ streams[k].life # "live"

\* The callback the handler of this step invoked last threw.
CallbackThrew == last'.calls # <<>> /\ Throws(callbacks, last'.calls[Len(last'.calls)])

\* C37: when a callback throws while a frame is dispatched, the exception
\* does not leave the message handler and the channel goes on delivering
\* frames; a text fragment whose onBotTranscript call threw is part of the
\* accumulated text, which is what the callback is given with every fragment.
C37_CallbackThrowContained ==
    [][(last'.op = "onmessage" /\ CallbackThrew) =>
            /\ ~last'.raised
            /\ chans' = chans
            /\ TextFrameRan' =>
                /\ accumulatedBotText' = Concat(utterance'.frags)
                /\ last'.calls = <<Call("onBotTranscript", Concat(utterance'.frags), FALSE)>>]_vars

\* C37 witness: onBotTranscript threw on "Hel", and the next fragment "lo"
\* was dispatched with "Hello", the handler again ending normally.
C37_Witness ==
    /\ callbacks.throwing = {"onBotTranscript"}
    /\ TextFrameRan /\ ~last.raised
    /\ utterance.frags = <<"Hel", "lo">>
    /\ last.calls = <<Call("onBotTranscript", "Hello", FALSE)>>

\* connect() has just settled after a disconnect() issued while it was suspended.
SettledAfterDisconnect ==
    /\ at = "idle" /\ last.op \in ConnectSteps
    /\ \E i \in 1..Len(steps) : steps[i] = "disconnect"

\* The instance is not connected and holds no open peer connection and no
\* unstopped local track.
Released ==
    /\ ~_connected
    /\ pc # Null => pcs[pc].life # "open"
    /\ localStream # Null => streams[localStream].life # "live"

\* C32 as claimed: a disconnect() issued at any await of connect() takes
\* effect: once connect() has settled the instance is not connected, holds
\* no open peer connection and no unstopped local track.
C32_DisconnectTakesEffect == SettledAfterDisconnect => Released

\* The disconnect() was issued after this connect() built its peer connection.
DisconnectedOncePeerBuilt ==
    \E i, j \in 1..Len(steps) : i < j /\ steps[i] = "pc" /\ steps[j] = "disconnect"

\* C32 amended: a disconnect() issued once connect() has built its peer
\* connection (from the getUserMedia await on) takes effect: if connect()
\* then settles, it rejects, the instance is not connected and nothing any
\* connect() acquired is left open or unstopped.
C32_DisconnectOncePeerBuilt ==
    (SettledAfterDisconnect /\ DisconnectedOncePeerBuilt) =>
        /\ result = "rejected" /\ Released /\ HoldsNothing
        /\ OpenPeers = {} /\ LiveStreams = {}

\* C32 witness: disconnect() was called while getUserMedia was pending, the
\* microphone was then granted, and connect() rejected on the null
\* peer connection with the new stream stopped.
C32_Witness ==
    /\ SettledAfterDisconnect /\ DisconnectedOncePeerBuilt
    /\ last.op = "connect_getUserMedia" /\ error = NullPc
    /\ streams[nConnects].life = "stopped"

C34_MuteSticky ==
    [][(last.op = "setMicMuted" /\ last.state = "true"
            /\ last'.op \notin {"setMicMuted", "disconnect"}) =>
            /\ isMicMuted'
            /\ localStream' # Null => ~streams'[localStream'].enabled]_vars

\* The handlers of the events of a peer connection or a data channel.
EventHandlers ==
    {"oniceconnectionstatechange", "onconnectionstatechange", "onicecandidate",
     "onopen", "onmessage"}

\* The instance holds no session and no connect() is pending: disconnect()
\* has returned and the next connect() has not begun.
TornDownIdle == pc = Null /\ at = "idle" /\ nConnects > 0

\* C35: an event handled while the instance is torn down (a late event of a
\* closed connection or channel) invokes no callback, sends no frame and no
\* signaling request, and leaves connected false and the accumulated text
\* empty.
C35_LateEventsInert ==
    [][(TornDownIdle /\ ~_connected /\ accumulatedBotText = ""
            /\ last'.op \in EventHandlers) =>
            /\ last'.calls = <<>>
            /\ \A c \in ChannelIds : chans'[c].sent = chans[c].sent
            /\ last'.frame.kind # "request"
            /\ ~_connected' /\ accumulatedBotText' = ""]_vars

\* C36: when a session has more than one data channel, the open event of a
\* channel appends one client-ready frame to the frames sent on that channel
\* and sends nothing on any other.
C36_ClientReadyOnOpenedChannel ==
    [][last'.op = "onopen" =>
            \A c \in ChannelIds :
                (chans'[c].opened /\ ~chans[c].opened
                    /\ \E d \in ChannelIds \ {c} : chans[d].pc = chans[c].pc) =>
                    /\ chans'[c].sent = Append(chans[c].sent, ClientReady)
                    /\ \A d \in ChannelIds \ {c} : chans'[d].sent = chans[d].sent]_vars

\* The interval timers set and not cleared.
ActiveTimers == {t \in TimerIds : timers[t] = "active"}

\* C38: once the job detail component is destroyed, no status-poll timer is
\* active.
C38_NoTimerAfterDestroy == mounted = "destroyed" => ActiveTimers = {}

\* C39: at most one status-poll timer exists at any time; once a status poll
\* has returned a terminal status, in any letter case, the timer is cleared,
\* and no status request is started until a resume starts polling again.
C39_OneTimerStoppedOnTerminal ==
    /\ [](Cardinality(ActiveTimers) <= 1)
    /\ [](stopped => (ActiveTimers = {} /\ statusPollInterval = Null))
    /\ [][polling' > polling => ~stopped]_vars

\* C39 witness: a timer was set, a poll answered "completed" in lower case
\* and the timer is cleared, with another status request still in flight.
C39_Witness ==
    /\ stopped /\ job.status = toLowerCase(COMPLETED)
    /\ \E t \in TimerIds : timers[t] = "cleared"
    /\ polling > 0

====
